---- MODULE Spec2Model ----
(***************************************************************************)
(* PyTracker: the device registry (pytracker/core/tracker.py) over an      *)
(* OpenVR backend.  The registry tables are Python containers:             *)
(*   object_names      dict  class string -> list of names                 *)
(*   devices           dict  name -> handle (insertion ordered)            *)
(*   device_index_map  dict  slot index -> name                            *)
(* Every handler is one action; an exception raised by a handler is        *)
(* recorded in err, and the calls the handler made are recorded in log     *)
(* together with the tables before and after each call.                    *)
(***************************************************************************)
EXTENDS Integers, Sequences, FiniteSets, TLC

\* ---------------------------------------------------------------- bounds
\* number of backend slots scanned (openvr.k_unMaxTrackedDeviceCount)
k_unMaxTrackedDeviceCount == 2
\* largest number of names the per-class lists hold together
MaxNames == 2
\* largest number of append calls a buffer receives between two clear calls
MaxSamples == 2
\* largest reading of the clock, in ticks
MaxClock == 2
\* largest number of backend queries get_serial makes for one handle
MaxQueries == 2
\* number of Tracker objects the process creates
MaxRegistries == 3
\* largest absolute value of a coordinate of a translation given to the
\* converters
MaxCoord == 1
\* largest number of events the backend queues between two polls
MaxQueue == 2

Slots == 0 .. (k_unMaxTrackedDeviceCount - 1)

\* ------------------------------------------------------- backend values
TrackedDeviceClass_Invalid == "Invalid"
TrackedDeviceClass_HMD == "HMD"
TrackedDeviceClass_Controller == "Controller"
TrackedDeviceClass_GenericTracker == "GenericTracker"
TrackedDeviceClass_TrackingReference == "TrackingReference"
TrackedDeviceClass_DisplayRedirect == "DisplayRedirect"

\* classes a connected slot can report
ConnectedClasses ==
    { TrackedDeviceClass_HMD, TrackedDeviceClass_Controller,
      TrackedDeviceClass_GenericTracker, TrackedDeviceClass_TrackingReference,
      TrackedDeviceClass_DisplayRedirect }

BackendClasses == ConnectedClasses \cup { TrackedDeviceClass_Invalid }

VREvent_TrackedDeviceActivated == "TrackedDeviceActivated"
VREvent_TrackedDeviceDeactivated == "TrackedDeviceDeactivated"
VREvent_Other == "ButtonPress"

\* ------------------------------------------------------ registry values
ClassNames == { "Tracking Reference", "HMD", "Controller", "Tracker" }

NoError == "none"
InvalidDeviceIndex == "Exception: Tracked device index not valid"
KeyError == "KeyError"
ValueError == "ValueError"
SystemExit == "SystemExit"

NoName == "<none>"

\* str(n) of a non-negative integer
Digit(d) ==
    CASE d = 0 -> "0" [] d = 1 -> "1" [] d = 2 -> "2" [] d = 3 -> "3"
      [] d = 4 -> "4" [] d = 5 -> "5" [] d = 6 -> "6" [] d = 7 -> "7"
      [] d = 8 -> "8" [] d = 9 -> "9"

RECURSIVE str(_)
str(n) == IF n < 10 THEN Digit(n) ELSE str(n \div 10) \o Digit(n % 10)

\* the backend's serial-number property of a slot
SerialOf(i) == "LHR-" \o str(i)

\* ------------------------------------------------------ Python containers
\* dict name -> handle, kept as the sequence of its items in insertion order
HasKey(d, k) == \E j \in 1 .. Len(d) : d[j].name = k

KeyPos(d, k) == CHOOSE j \in 1 .. Len(d) : d[j].name = k

DictGet(d, k) == d[KeyPos(d, k)].handle

\* d[k] = h : an existing key keeps its position, a new key goes last
DictSet(d, k, h) ==
    IF HasKey(d, k)
    THEN [d EXCEPT ![KeyPos(d, k)] = [name |-> k, handle |-> h]]
    ELSE Append(d, [name |-> k, handle |-> h])

\* del d[k] for a key that is present
DictDel(d, k) ==
    LET p == KeyPos(d, k)
    IN SubSeq(d, 1, p - 1) \o SubSeq(d, p + 1, Len(d))

\* dict slot -> name, kept as a function on the slots present
EmptyMap == [j \in {} |-> NoName]

MapSet(m, i, v) == [j \in (DOMAIN m) \cup {i} |-> IF j = i THEN v ELSE m[j]]

MapDel(m, i) == [j \in (DOMAIN m) \ {i} |-> m[j]]

\* list operations
InList(l, x) == \E j \in 1 .. Len(l) : l[j] = x

\* list.remove(x) for an element that is present: drops the first occurrence
ListRemove(l, x) ==
    LET p == CHOOSE j \in 1 .. Len(l) :
                 l[j] = x /\ \A q \in 1 .. (j - 1) : l[q] # x
    IN SubSeq(l, 1, p - 1) \o SubSeq(l, p + 1, Len(l))

\* ----------------------------------------------------------------- handles
TrackedDevice(i, device_class) ==
    [index |-> i, device_class |-> device_class, kind |-> "TrackedDevice"]

\* a tracking reference built as a handle of the common type
TrackingReference_Common(i, device_class) ==
    [index |-> i, device_class |-> device_class, kind |-> "TrackedDevice"]

TrackingReference(i, device_class) ==
    [index |-> i, device_class |-> device_class, kind |-> "TrackingReference"]

\* ------------------------------------------------------------ the tables
EmptyTables ==
    [object_names |-> [c \in ClassNames |-> <<>>],
     devices |-> <<>>,
     device_index_map |-> EmptyMap]

TotalNames(t) ==
    Len(t.object_names["Tracking Reference"]) + Len(t.object_names["HMD"])
    + Len(t.object_names["Controller"]) + Len(t.object_names["Tracker"])

\* one call made by a handler: its arguments, the tables before and after
\* it, the exception it raised and the name it assigned or removed
Call(op, args, pre, post, e, name) ==
    [op |-> op, args |-> args, pre |-> pre, post |-> post, err |-> e,
     name |-> name]

\* ------------------------------------------------------ add_tracked_device
\* add_tracked_device naming from the list length without the + 1
AddAs_ZeroBased(t, i, prefix, cls, h) ==
    LET device_name == prefix \o str(Len(t.object_names[cls]))
    IN [tables |->
            [object_names |->
                 [t.object_names EXCEPT ![cls] = Append(@, device_name)],
             devices |-> DictSet(t.devices, device_name, h),
             device_index_map |-> MapSet(t.device_index_map, i, device_name)],
        err |-> NoError,
        name |-> device_name]

\* one branch of add_tracked_device: name the device after the length of
\* its class list, append the name, store the handle, map the slot
AddAs(t, i, prefix, cls, h) ==
    LET device_name == prefix \o str(Len(t.object_names[cls]) + 1)
    IN [tables |->
            [object_names |->
                 [t.object_names EXCEPT ![cls] = Append(@, device_name)],
             devices |-> DictSet(t.devices, device_name, h),
             device_index_map |-> MapSet(t.device_index_map, i, device_name)],
        err |-> NoError,
        name |-> device_name]

\* add_tracked_device without its GenericTracker branch
add_tracked_device_NoTracker(t, i, device_class) ==
    IF device_class = TrackedDeviceClass_Controller
    THEN AddAs(t, i, "controller_", "Controller", TrackedDevice(i, "Controller"))
    ELSE IF device_class = TrackedDeviceClass_HMD
    THEN AddAs(t, i, "hmd_", "HMD", TrackedDevice(i, "HMD"))
    ELSE IF device_class = TrackedDeviceClass_TrackingReference
    THEN AddAs(t, i, "tracking_reference_", "Tracking Reference",
               TrackingReference(i, "Tracking Reference"))
    ELSE [tables |-> t, err |-> NoError, name |-> NoName]

add_tracked_device(t, i, device_class) ==
    IF device_class = TrackedDeviceClass_Controller
    THEN AddAs(t, i, "controller_", "Controller", TrackedDevice(i, "Controller"))
    ELSE IF device_class = TrackedDeviceClass_HMD
    THEN AddAs(t, i, "hmd_", "HMD", TrackedDevice(i, "HMD"))
    ELSE IF device_class = TrackedDeviceClass_GenericTracker
    THEN AddAs(t, i, "tracker_", "Tracker", TrackedDevice(i, "Tracker"))
    ELSE IF device_class = TrackedDeviceClass_TrackingReference
    THEN AddAs(t, i, "tracking_reference_", "Tracking Reference",
               TrackingReference(i, "Tracking Reference"))
    ELSE [tables |-> t, err |-> NoError, name |-> NoName]

\* --------------------------------------------------- remove_tracked_device
\* remove_tracked_device returning quietly for a slot that is not tracked
remove_tracked_device_Quiet(t, i) ==
    IF i \in DOMAIN t.device_index_map
    THEN LET device_name == t.device_index_map[i]
         IN IF ~HasKey(t.devices, device_name)
            THEN [tables |-> t, err |-> KeyError, name |-> device_name]
            ELSE LET cls == DictGet(t.devices, device_name).device_class
                 IN IF ~InList(t.object_names[cls], device_name)
                    THEN [tables |-> t, err |-> ValueError,
                          name |-> device_name]
                    ELSE [tables |->
                              [object_names |->
                                   [t.object_names EXCEPT
                                      ![cls] = ListRemove(@, device_name)],
                               device_index_map |->
                                   MapDel(t.device_index_map, i),
                               devices |-> DictDel(t.devices, device_name)],
                          err |-> NoError,
                          name |-> device_name]
    ELSE [tables |-> t, err |-> NoError, name |-> NoName]

\* remove_tracked_device deleting the slot from the slot-index map before it
\* looks the handle up: a failed look-up leaves the map without the slot
remove_tracked_device_MapFirst(t, i) ==
    IF i \in DOMAIN t.device_index_map
    THEN LET device_name == t.device_index_map[i]
             dropped == [t EXCEPT !.device_index_map = MapDel(@, i)]
         IN IF ~HasKey(t.devices, device_name)
            THEN [tables |-> dropped, err |-> KeyError, name |-> device_name]
            ELSE LET cls == DictGet(t.devices, device_name).device_class
                 IN IF ~InList(t.object_names[cls], device_name)
                    THEN [tables |-> dropped, err |-> ValueError,
                          name |-> device_name]
                    ELSE [tables |->
                              [object_names |->
                                   [t.object_names EXCEPT
                                      ![cls] = ListRemove(@, device_name)],
                               device_index_map |->
                                   MapDel(t.device_index_map, i),
                               devices |-> DictDel(t.devices, device_name)],
                          err |-> NoError,
                          name |-> device_name]
    ELSE [tables |-> t, err |-> InvalidDeviceIndex, name |-> NoName]

remove_tracked_device(t, i) ==
    IF i \in DOMAIN t.device_index_map
    THEN LET device_name == t.device_index_map[i]
         IN IF ~HasKey(t.devices, device_name)
            THEN [tables |-> t, err |-> KeyError, name |-> device_name]
            ELSE LET cls == DictGet(t.devices, device_name).device_class
                 IN IF ~InList(t.object_names[cls], device_name)
                    THEN [tables |-> t, err |-> ValueError,
                          name |-> device_name]
                    ELSE [tables |->
                              [object_names |->
                                   [t.object_names EXCEPT
                                      ![cls] = ListRemove(@, device_name)],
                               device_index_map |->
                                   MapDel(t.device_index_map, i),
                               devices |-> DictDel(t.devices, device_name)],
                          err |-> NoError,
                          name |-> device_name]
    ELSE [tables |-> t, err |-> InvalidDeviceIndex, name |-> NoName]

\* ----------------------------------------------------------- rename_device
\* rename_device with dict.pop(old, None) semantics: an unknown old is skipped
rename_device_Quiet(t, old_device_name, new_device_name) ==
    IF ~HasKey(t.devices, old_device_name)
    THEN [tables |-> t, err |-> NoError, name |-> NoName]
    ELSE LET h == DictGet(t.devices, old_device_name)
             d == DictSet(DictDel(t.devices, old_device_name),
                          new_device_name, h)
             l == t.object_names[h.device_class]
         IN [tables |->
                 [object_names |->
                      [t.object_names EXCEPT
                         ![h.device_class] =
                             [j \in 1 .. Len(l) |->
                                  IF l[j] = old_device_name
                                  THEN new_device_name ELSE l[j]]],
                  devices |-> d,
                  device_index_map |-> t.device_index_map],
             err |-> NoError,
             name |-> new_device_name]

rename_device(t, old_device_name, new_device_name) ==
    IF ~HasKey(t.devices, old_device_name)
    THEN [tables |-> t, err |-> KeyError, name |-> NoName]
    ELSE LET h == DictGet(t.devices, old_device_name)
             d == DictSet(DictDel(t.devices, old_device_name),
                          new_device_name, h)
             l == t.object_names[h.device_class]
         IN [tables |->
                 [object_names |->
                      [t.object_names EXCEPT
                         ![h.device_class] =
                             [j \in 1 .. Len(l) |->
                                  IF l[j] = old_device_name
                                  THEN new_device_name ELSE l[j]]],
                  devices |-> d,
                  device_index_map |-> t.device_index_map],
             err |-> NoError,
             name |-> new_device_name]

\* ---------------------------------------------------------- poll_vr_events
\* An event as poll_vr_events meets it: the VREvent_t fields, and the class
\* getTrackedDeviceClass reports for its slot while the event is handled.
Event(type, i, device_class) ==
    [eventType |-> type, trackedDeviceIndex |-> i, deviceClass |-> device_class]

\* the loop body without the membership test before remove_tracked_device
handle_event_Unguarded(t, event) ==
    IF event.eventType = VREvent_TrackedDeviceActivated
    THEN add_tracked_device(t, event.trackedDeviceIndex, event.deviceClass)
    ELSE IF event.eventType = VREvent_TrackedDeviceDeactivated
    THEN remove_tracked_device(t, event.trackedDeviceIndex)
    ELSE [tables |-> t, err |-> NoError, name |-> NoName]

\* the body of the polling loop for one event taken from the backend queue
handle_event(t, event) ==
    IF event.eventType = VREvent_TrackedDeviceActivated
    THEN add_tracked_device(t, event.trackedDeviceIndex, event.deviceClass)
    ELSE IF event.eventType = VREvent_TrackedDeviceDeactivated
    THEN IF event.trackedDeviceIndex \in DOMAIN t.device_index_map
         THEN remove_tracked_device(t, event.trackedDeviceIndex)
         ELSE [tables |-> t, err |-> NoError, name |-> NoName]
    ELSE [tables |-> t, err |-> NoError, name |-> NoName]

\* ------------------------------------------------------------- __init__
\* the configuration file named by configfile_path
NoConfig == [kind |-> "none", devices |-> <<>>]
Unreadable == [kind |-> "unreadable", devices |-> <<>>]
InvalidJson == [kind |-> "invalid_json", devices |-> <<>>]
NoDevicesKey == [kind |-> "no_devices_key", devices |-> <<>>]
Json(entries) == [kind |-> "json", devices |-> entries]
Entry(serial, name, type) == [serial |-> serial, name |-> name, type |-> type]

\* the backend as __init__ meets it: the slots the pose snapshot marks
\* connected, and the class getTrackedDeviceClass reports for each slot
Backend(connected, device_class) ==
    [connected |-> connected, deviceClass |-> device_class]

\* poses[i].bDeviceIsConnected of the snapshot
bDeviceIsConnected(vr, i) == i \in vr.connected

\* for device in config['devices']: the entries from position k on, slot i
RECURSIVE config_entries(_, _, _, _, _)
config_entries(t, i, entries, k, calls) ==
    IF k > Len(entries)
    THEN [tables |-> t, err |-> NoError, log |-> calls]
    ELSE LET device == entries[k]
         IN IF SerialOf(i) # device.serial
            THEN config_entries(t, i, entries, k + 1, calls)
            ELSE IF device.type \notin ClassNames
            THEN [tables |-> t, err |-> KeyError,
                  log |-> Append(calls,
                                 Call("config_entry", [slot |-> i, k |-> k],
                                      t, t, KeyError, device.name))]
            ELSE LET h == IF device.type = "Tracking Reference"
                          THEN TrackingReference(i, device.type)
                          ELSE TrackedDevice(i, device.type)
                     n == [object_names |->
                               [t.object_names EXCEPT
                                  ![device.type] = Append(@, device.name)],
                           devices |-> DictSet(t.devices, device.name, h),
                           device_index_map |-> t.device_index_map]
                 IN config_entries(n, i, entries, k + 1,
                        Append(calls,
                               Call("config_entry", [slot |-> i, k |-> k],
                                    t, n, NoError, device.name)))

\* for i in range(k_unMaxTrackedDeviceCount), configuration branch
RECURSIVE config_slots(_, _, _, _, _)
config_slots(t, i, config, vr, calls) ==
    IF i >= k_unMaxTrackedDeviceCount
    THEN [tables |-> t, err |-> NoError, log |-> calls]
    ELSE IF ~bDeviceIsConnected(vr, i)
    THEN config_slots(t, i + 1, config, vr, calls)
    ELSE IF config.kind = "no_devices_key"
    THEN [tables |-> t, err |-> KeyError, log |-> calls]
    ELSE LET r == config_entries(t, i, config.devices, 1, calls)
         IN IF r.err # NoError
            THEN r
            ELSE config_slots(r.tables, i + 1, config, vr, r.log)

\* for i in range(k_unMaxTrackedDeviceCount), branch without configuration
RECURSIVE auto_slots(_, _, _, _)
auto_slots(t, i, vr, calls) ==
    IF i >= k_unMaxTrackedDeviceCount
    THEN [tables |-> t, err |-> NoError, log |-> calls]
    ELSE IF ~bDeviceIsConnected(vr, i)
    THEN auto_slots(t, i + 1, vr, calls)
    ELSE LET r == add_tracked_device(t, i, vr.deviceClass[i])
         IN auto_slots(r.tables, i + 1, vr,
                       Append(calls,
                              Call("add_tracked_device",
                                   [slot |-> i, deviceClass |-> vr.deviceClass[i]],
                                   t, r.tables, r.err, r.name)))

\* Tracker.__init__ against the backend's snapshot
init(config, vr) ==
    IF config.kind = "none"
    THEN auto_slots(EmptyTables, 0, vr, <<>>)
    ELSE IF config.kind = "unreadable"
    THEN [tables |-> EmptyTables, err |-> SystemExit, log |-> <<>>]
    ELSE IF config.kind = "invalid_json"
    THEN [tables |-> EmptyTables, err |-> ValueError, log |-> <<>>]
    ELSE config_slots(EmptyTables, 0, config, vr, <<>>)

\* ---------------------------------------------------------------- lookups
is_device_connected(t, device_name) == HasKey(t.devices, device_name)

get_devices_by_type(t, device_type) ==
    LET l == IF device_type \in ClassNames
             THEN t.object_names[device_type] ELSE <<>>
    IN IF \E j \in 1 .. Len(l) : ~HasKey(t.devices, l[j])
       THEN [err |-> KeyError, value |-> <<>>]
       ELSE [err |-> NoError,
             value |-> [j \in 1 .. Len(l) |-> DictGet(t.devices, l[j])]]

\* ------------------------------------------------------------ pose matrices
\* a 3x4 matrix as its three rows; At keeps the source's indices from 0
At(pose_mat, r, c) == pose_mat[r + 1][c + 1]

Identity == << << 1, 0, 0, 0 >>, << 0, 1, 0, 0 >>, << 0, 0, 1, 0 >> >>
\* the identity rotation away from the origin
Moved == << << 1, 0, 0, 1 >>, << 0, 1, 0, 2 >>, << 0, 0, 1, 3 >> >>
\* the matrix of a slot the backend has no pose for
ZeroMatrix == << << 0, 0, 0, 0 >>, << 0, 0, 0, 0 >>, << 0, 0, 0, 0 >> >>
\* a quarter turn about the x axis: m[2][2] = 0
QuarterTurnX == << << 1, 0, 0, 0 >>, << 0, 0, -1, 0 >>, << 0, 1, 0, 0 >> >>
\* a half turn about the x axis: 1 + m[0][0] + m[1][1] + m[2][2] = 0
HalfTurnX == << << 1, 0, 0, 0 >>, << 0, -1, 0, 0 >>, << 0, 0, -1, 0 >> >>
\* a matrix whose third row is zero: m[2][1] = m[2][2] = 0 with m[0][0] # 0
FlatRow == << << 1, 0, 0, 0 >>, << 0, 1, 0, 0 >>, << 0, 0, 0, 0 >> >>

\* ---------------------------------------------------- Python arithmetic
ZeroDivisionError == "ZeroDivisionError"

abs(n) == IF n < 0 THEN 0 - n ELSE n

\* pow(n, 2) and n**2
square(n) == n * n

\* a / b for b # 0, on the operands whose quotient is a whole number
TrueDiv(a, b) ==
    CASE b > 0 /\ a % b = 0 -> a \div b
      [] b < 0 /\ (0 - a) % (0 - b) = 0 -> (0 - a) \div (0 - b)

\* math.sqrt on the squares the matrices above produce
sqrt(n) == CASE n = 0 -> 0 [] n = 1 -> 1 [] n = 4 -> 2 [] n = 16 -> 4

\* 180 / math.pi * math.atan(q), in degrees
atan_degrees(q) == CASE q = 0 -> 0 [] q = 1 -> 45 [] q = -1 -> -45

\* 180 / math.pi * math.atan2(y, x), in degrees
atan2_degrees(y, x) ==
    CASE x = 0 /\ y = 0 -> 0
      [] x > 0 /\ y = 0 -> 0
      [] x < 0 /\ y = 0 -> 180
      [] x = 0 /\ y > 0 -> 90
      [] x = 0 /\ y < 0 -> -90
      [] x > 0 /\ y = x -> 45
      [] x > 0 /\ y = 0 - x -> -45
      [] x < 0 /\ y = 0 - x -> 135
      [] x < 0 /\ y = x -> -135

\* ------------------------------------------------------- PoseSampleBuffer
\* PoseSampleBuffer(): the columns are Python lists
PoseSampleBuffer ==
    [i |-> 0, index |-> <<>>, time |-> <<>>, x |-> <<>>, y |-> <<>>,
     z |-> <<>>, yaw |-> <<>>, pitch |-> <<>>, roll |-> <<>>, r_w |-> <<>>,
     r_x |-> <<>>, r_y |-> <<>>, r_z |-> <<>>]

\* PoseSampleBuffer.__len__
len(b) == Len(b.time)

\* PoseSampleBuffer.append, statement by statement: each statement derives
\* its value and then appends it; a division by zero ends the call there
append(b, pose_mat, t) ==
    LET b1 == [b EXCEPT !.time = Append(@, t),
                        !.x = Append(@, At(pose_mat, 0, 3)),
                        !.y = Append(@, At(pose_mat, 1, 3)),
                        !.z = Append(@, At(pose_mat, 2, 3))]
    IN IF At(pose_mat, 0, 0) = 0
       THEN [buffer |-> b1, err |-> ZeroDivisionError]
       ELSE
    LET b2 == [b1 EXCEPT !.yaw = Append(@, atan_degrees(
                             TrueDiv(At(pose_mat, 1, 0), At(pose_mat, 0, 0))))]
        den == sqrt(square(At(pose_mat, 2, 1)) + square(At(pose_mat, 2, 2)))
    IN IF den = 0
       THEN [buffer |-> b2, err |-> ZeroDivisionError]
       ELSE
    LET b3 == [b2 EXCEPT !.pitch = Append(@, atan_degrees(
                             TrueDiv(-1 * At(pose_mat, 2, 0), den)))]
    IN IF At(pose_mat, 2, 2) = 0
       THEN [buffer |-> b3, err |-> ZeroDivisionError]
       ELSE
    LET b4 == [b3 EXCEPT !.roll = Append(@, atan_degrees(
                             TrueDiv(At(pose_mat, 2, 1), At(pose_mat, 2, 2))))]
        r_w == TrueDiv(sqrt(abs(1 + At(pose_mat, 0, 0) + At(pose_mat, 1, 1)
                                  + At(pose_mat, 2, 2))), 2)
        b5 == [b4 EXCEPT !.r_w = Append(@, r_w)]
    IN IF 4 * r_w = 0
       THEN [buffer |-> b5, err |-> ZeroDivisionError]
       ELSE [buffer |->
                 [b5 EXCEPT
                    !.r_x = Append(@, TrueDiv(At(pose_mat, 2, 1)
                                              - At(pose_mat, 1, 2), 4 * r_w)),
                    !.r_y = Append(@, TrueDiv(At(pose_mat, 0, 2)
                                              - At(pose_mat, 2, 0), 4 * r_w)),
                    !.r_z = Append(@, TrueDiv(At(pose_mat, 1, 0)
                                              - At(pose_mat, 0, 1), 4 * r_w))],
             err |-> NoError]

\* clear that forgets the time column
clear_KeepsTime(b) == [PoseSampleBuffer EXCEPT !.time = b.time]

\* PoseSampleBuffer.clear
clear(b) ==
    [b EXCEPT !.i = 0, !.index = <<>>, !.time = <<>>, !.x = <<>>, !.y = <<>>,
              !.z = <<>>, !.yaw = <<>>, !.pitch = <<>>, !.roll = <<>>,
              !.r_w = <<>>, !.r_x = <<>>, !.r_y = <<>>, !.r_z = <<>>]

\* ------------------------------------------------------------ return values
\* Python's None, and the values a method hands back
None == [kind |-> "None", v |-> <<>>]
Returned(kind, v) == [kind |-> kind, v |-> v]
\* a call that raised hands nothing back
Raised == [kind |-> "raised", v |-> <<>>]

\* -------------------------------------------------------- TrackedDevice.sample
\* the faults that end a call from outside its own code
BackendFault == "OpenVRError"
KeyboardInterrupt == "KeyboardInterrupt"

\* one entry of the snapshot getDeviceToAbsoluteTrackingPose returns
TrackedDevicePose(valid, pose_mat, velocity, angular_velocity) ==
    [bPoseIsValid |-> valid, mDeviceToAbsoluteTracking |-> pose_mat,
     vVelocity |-> velocity, vAngularVelocity |-> angular_velocity]

\* the entry of a slot the backend has no pose for
NoPose == TrackedDevicePose(FALSE, ZeroMatrix, << 0, 0, 0 >>, << 0, 0, 0 >>)

\* interval = 1 / sample_rate, in clock ticks of half a second
interval_of(sample_rate) == TrueDiv(2, sample_rate)

\* the locals of sample(): lines 59-61 have run, sample_start is the clock;
\* fetched counts the get_pose calls, slept is the time.sleep argument of
\* the iteration that has just ended (0 without a sleep), and taken lists
\* the arguments of the rtn.append calls made so far
Frame(self, num_samples, sample_rate, now) ==
    [self |-> self, num_samples |-> num_samples,
     interval |-> interval_of(sample_rate), rtn |-> PoseSampleBuffer,
     sample_start |-> now, i |-> 0, start |-> 0,
     pose |-> NoPose, fetched |-> 0, slept |-> 0,
     taken |-> <<>>]

\* no sample() call has run
NoFrame == Frame(TrackedDevice(0, "Controller"), 0, 1, 0)

\* ------------------------------------------------------------------ utils
\* convert_to_euler reading the translation from the first row only
convert_to_euler_FirstRow(pose_mat) ==
    LET yaw == atan2_degrees(At(pose_mat, 1, 0), At(pose_mat, 0, 0))
        pitch == atan2_degrees(0 - At(pose_mat, 2, 0),
                               sqrt(square(At(pose_mat, 2, 1))
                                    + square(At(pose_mat, 2, 2))))
        roll == atan2_degrees(At(pose_mat, 2, 1), At(pose_mat, 2, 2))
    IN [value |->
            Returned("list",
                     << At(pose_mat, 0, 3), At(pose_mat, 0, 3),
                        At(pose_mat, 0, 3), yaw, pitch, roll >>),
        err |-> NoError]

\* convert_to_euler: [x, y, z, yaw, pitch, roll]
convert_to_euler(pose_mat) ==
    LET yaw == atan2_degrees(At(pose_mat, 1, 0), At(pose_mat, 0, 0))
        pitch == atan2_degrees(0 - At(pose_mat, 2, 0),
                               sqrt(square(At(pose_mat, 2, 1))
                                    + square(At(pose_mat, 2, 2))))
        roll == atan2_degrees(At(pose_mat, 2, 1), At(pose_mat, 2, 2))
    IN [value |->
            Returned("list",
                     << At(pose_mat, 0, 3), At(pose_mat, 1, 3),
                        At(pose_mat, 2, 3), yaw, pitch, roll >>),
        err |-> NoError]

\* convert_to_quaternion with r_w as the last element
convert_to_quaternion_WLast(pose_mat) ==
    LET r_w == TrueDiv(sqrt(abs(1 + At(pose_mat, 0, 0) + At(pose_mat, 1, 1)
                                  + At(pose_mat, 2, 2))), 2)
    IN IF 4 * r_w = 0
       THEN [value |-> Raised, err |-> ZeroDivisionError]
       ELSE [value |->
                 Returned("list",
                          << At(pose_mat, 0, 3), At(pose_mat, 1, 3),
                             At(pose_mat, 2, 3),
                             TrueDiv(At(pose_mat, 2, 1) - At(pose_mat, 1, 2),
                                     4 * r_w),
                             TrueDiv(At(pose_mat, 0, 2) - At(pose_mat, 2, 0),
                                     4 * r_w),
                             TrueDiv(At(pose_mat, 1, 0) - At(pose_mat, 0, 1),
                                     4 * r_w), r_w >>),
             err |-> NoError]

\* convert_to_quaternion answering the identity rotation where r_w = 0
convert_to_quaternion_Guarded(pose_mat) ==
    LET r_w == TrueDiv(sqrt(abs(1 + At(pose_mat, 0, 0) + At(pose_mat, 1, 1)
                                  + At(pose_mat, 2, 2))), 2)
    IN IF 4 * r_w = 0
       THEN [value |->
                 Returned("list",
                          << At(pose_mat, 0, 3), At(pose_mat, 1, 3),
                             At(pose_mat, 2, 3), 1, 0, 0, 0 >>),
             err |-> NoError]
       ELSE [value |->
                 Returned("list",
                          << At(pose_mat, 0, 3), At(pose_mat, 1, 3),
                             At(pose_mat, 2, 3), r_w,
                             TrueDiv(At(pose_mat, 2, 1) - At(pose_mat, 1, 2),
                                     4 * r_w),
                             TrueDiv(At(pose_mat, 0, 2) - At(pose_mat, 2, 0),
                                     4 * r_w),
                             TrueDiv(At(pose_mat, 1, 0) - At(pose_mat, 0, 1),
                                     4 * r_w) >>),
             err |-> NoError]

\* convert_to_quaternion: [x, y, z, r_w, r_x, r_y, r_z], or the division
\* by 4 * r_w = 0 raising
convert_to_quaternion(pose_mat) ==
    LET r_w == TrueDiv(sqrt(abs(1 + At(pose_mat, 0, 0) + At(pose_mat, 1, 1)
                                  + At(pose_mat, 2, 2))), 2)
    IN IF 4 * r_w = 0
       THEN [value |-> Raised, err |-> ZeroDivisionError]
       ELSE [value |->
                 Returned("list",
                          << At(pose_mat, 0, 3), At(pose_mat, 1, 3),
                             At(pose_mat, 2, 3), r_w,
                             TrueDiv(At(pose_mat, 2, 1) - At(pose_mat, 1, 2),
                                     4 * r_w),
                             TrueDiv(At(pose_mat, 0, 2) - At(pose_mat, 2, 0),
                                     4 * r_w),
                             TrueDiv(At(pose_mat, 1, 0) - At(pose_mat, 0, 1),
                                     4 * r_w) >>),
             err |-> NoError]

\* ----------------------------------------------- TrackedDevice pose accessors
\* each accessor from its validity test on: pose is the snapshot it uses
get_pose_euler(self, pose) ==
    IF pose[self.index].bPoseIsValid
    THEN convert_to_euler(pose[self.index].mDeviceToAbsoluteTracking)
    ELSE [value |-> None, err |-> NoError]

get_pose_matrix(self, pose) ==
    IF pose[self.index].bPoseIsValid
    THEN [value |-> Returned("matrix",
                             pose[self.index].mDeviceToAbsoluteTracking),
          err |-> NoError]
    ELSE [value |-> None, err |-> NoError]

\* get_velocity without its validity test
get_velocity_Unchecked(self, pose) ==
    [value |-> Returned("vector", pose[self.index].vVelocity),
     err |-> NoError]

get_velocity(self, pose) ==
    IF pose[self.index].bPoseIsValid
    THEN [value |-> Returned("vector", pose[self.index].vVelocity),
          err |-> NoError]
    ELSE [value |-> None, err |-> NoError]

get_angular_velocity(self, pose) ==
    IF pose[self.index].bPoseIsValid
    THEN [value |-> Returned("vector", pose[self.index].vAngularVelocity),
          err |-> NoError]
    ELSE [value |-> None, err |-> NoError]

get_pose_quaternion(self, pose) ==
    IF pose[self.index].bPoseIsValid
    THEN convert_to_quaternion(pose[self.index].mDeviceToAbsoluteTracking)
    ELSE [value |-> None, err |-> NoError]

\* the accessor of a given name
Accessor(name, self, pose) ==
    CASE name = "get_pose_euler" -> get_pose_euler(self, pose)
      [] name = "get_pose_matrix" -> get_pose_matrix(self, pose)
      [] name = "get_velocity" -> get_velocity(self, pose)
      [] name = "get_angular_velocity" -> get_angular_velocity(self, pose)
      [] name = "get_pose_quaternion" -> get_pose_quaternion(self, pose)

\* ------------------------------------------------ TrackedDevice.get_serial
\* the handle objects of the process, told apart by identity (position):
\* the first two are equal in every field
Objects ==
    << TrackedDevice(0, "Controller"), TrackedDevice(0, "Controller"),
       TrackingReference(1, "Tracking Reference") >>

NoSerial == "<not cached>"

\* the lru_cache, keyed by the handle object: the result it holds for the
\* handle, and the backend queries made for the handle so far
EmptyCache ==
    [o \in DOMAIN Objects |-> [result |-> NoSerial, queries |-> 0]]

\* get_serial with a cache keyed by the slot index instead of the handle
get_serial_BySlot(cache, o, answer) ==
    LET same == { q \in DOMAIN Objects :
                    /\ Objects[q].index = Objects[o].index
                    /\ cache[q].result # NoSerial }
    IN IF same # {}
       THEN [cache |-> cache, err |-> NoError,
             value |-> Returned("str", cache[CHOOSE q \in same : TRUE].result)]
       ELSE IF answer = BackendFault
       THEN [cache |-> [cache EXCEPT ![o].queries = @ + 1],
             err |-> BackendFault, value |-> Raised]
       ELSE [cache |-> [cache EXCEPT ![o].queries = @ + 1,
                                     ![o].result = answer],
             err |-> NoError, value |-> Returned("str", answer)]

\* get_serial() on handle object o; answer is what
\* getStringTrackedDeviceProperty does when it is called now
get_serial(cache, o, answer) ==
    IF cache[o].result # NoSerial
    THEN [cache |-> cache, err |-> NoError,
          value |-> Returned("str", cache[o].result)]
    ELSE IF answer = BackendFault
    THEN [cache |-> [cache EXCEPT ![o].queries = @ + 1],
          err |-> BackendFault, value |-> Raised]
    ELSE [cache |-> [cache EXCEPT ![o].queries = @ + 1,
                                  ![o].result = answer],
          err |-> NoError, value |-> Returned("str", answer)]

\* ------------------------------------------------------- Tracker lifecycle
\* a Tracker object: "unborn", "ready" (__init__ returned), "failed"
\* (__init__ raised) or "collected" (__del__ has run); initialized tells
\* that openvr.init returned in its __init__, shutdowns counts the
\* openvr.shutdown calls of its __del__
Registries == 1 .. MaxRegistries

NoRegistries ==
    [r \in Registries |->
        [state |-> "unborn", initialized |-> FALSE, shutdowns |-> 0]]

\* ----------------------------------------------------- get_device_by_serial
\* for device in self.devices.values(), from position j on; answers[j] is
\* what device.get_serial() does for the j-th handle: it returns a string of
\* the type the backend returns ("bytes" or "str") or the call is "raised";
\* s is the str the caller passes, and == between a bytes and a str is False
RECURSIVE get_device_by_serial(_, _, _, _)
get_device_by_serial(t, j, s, answers) ==
    IF j > Len(t.devices)
    THEN [value |-> None, err |-> NoError]
    ELSE IF answers[j].type = "raised"
    THEN [value |-> Raised, err |-> answers[j].text]
    ELSE IF answers[j] = [type |-> "str", text |-> s]
    THEN [value |-> Returned("handle", t.devices[j].handle), err |-> NoError]
    ELSE get_device_by_serial(t, j + 1, s, answers)

\* ------------------------------------------------------------- the inputs
Configs ==
    { NoConfig, Unreadable, InvalidJson, NoDevicesKey,
      Json(<< Entry("LHR-0", "left", "Controller"),
              Entry("LHR-1", "base", "Tracking Reference") >>),
      Json(<< Entry("LHR-1", "head", "HMD"),
              Entry("LHR-1", "puck", "Tracker") >>),
      Json(<< Entry("LHR-0", "left", "Controller"),
              Entry("LHR-1", "pad", "Gamepad") >>) }

\* the backends __init__ can meet
Backends ==
    { Backend(c, dc) : c \in SUBSET Slots, dc \in [Slots -> BackendClasses] }

\* the classes of the devices switched on and off while the registry runs
HotPlugClasses ==
    { TrackedDeviceClass_Controller, TrackedDeviceClass_TrackingReference,
      TrackedDeviceClass_DisplayRedirect }

\* the events pollNextEvent can deliver
Events ==
    { Event(VREvent_TrackedDeviceActivated, i, c) :
        i \in Slots, c \in HotPlugClasses }
    \cup { Event(VREvent_TrackedDeviceDeactivated, i,
                 TrackedDeviceClass_Invalid) : i \in Slots }
    \cup { Event(VREvent_Other, 0, TrackedDeviceClass_Invalid) }

\* names a caller passes to rename_device
OldNames == { "controller_1", "controller_2", "left", "ghost" }
NewNames == { "left", "right" }

\* ------------------------------------------------------------------ state
VARIABLES
    phase,             \* "new", "ready" (constructed), "failed" (__init__ raised)
    pc,                \* where the caller of the Tracker stands
    object_names,      \* Tracker.object_names
    devices,           \* Tracker.devices
    device_index_map,  \* Tracker.device_index_map
    handler,           \* the method that has just run, "none" otherwise
    err,               \* the exception it raised, or NoError
    log,               \* the calls it made, in order
    buffer,            \* a PoseSampleBuffer held by the caller
    frame,             \* the locals of the sample() call that is running
    value,             \* what the call that has just returned gave its caller
    serial_cache,      \* the lru_cache of TrackedDevice.get_serial
    registries,        \* the Tracker objects of the process
    queue              \* the hot-plug events the backend holds for pollNextEvent

registry_vars == << phase, object_names, devices, device_index_map >>

\* the state outside the Tracker object
device_vars == << buffer, frame, value, serial_cache, registries, queue >>

vars ==
    << phase, pc, object_names, devices, device_index_map, handler, err, log,
       buffer, frame, value, serial_cache, registries, queue >>

\* pc: "idle"      the caller is between two calls
\*     "returned"  a method has just returned or raised; handler, err and
\*                 log describe that call
\*     "polling"   poll_vr_events is at its while test (tracker.py line 90)
\*     "handled"   poll_vr_events has run the loop body for one event;
\*                 log describes that event

tables ==
    [object_names |-> object_names, devices |-> devices,
     device_index_map |-> device_index_map]

SetTables(t) ==
    /\ object_names' = t.object_names
    /\ devices' = t.devices
    /\ device_index_map' = t.device_index_map

\* what the step just taken did: the method, its exception, its calls
Observe(h, e, l) ==
    /\ handler' = h
    /\ err' = e
    /\ log' = l

Init ==
    /\ phase = "new"
    /\ pc = "idle"
    /\ object_names = EmptyTables.object_names
    /\ devices = EmptyTables.devices
    /\ device_index_map = EmptyTables.device_index_map
    /\ handler = "none"
    /\ err = NoError
    /\ log = <<>>
    /\ buffer = PoseSampleBuffer
    /\ frame = NoFrame
    /\ value = None
    /\ serial_cache = EmptyCache
    /\ registries = NoRegistries
    /\ queue = <<>>

\* ---------------------------------------------------------------- Tracker
Construct ==
    /\ UNCHANGED device_vars
    /\ phase = "new"
    /\ pc = "idle"
    /\ \E config \in Configs, vr \in Backends :
        LET r == init(config, vr)
        IN /\ phase' = IF r.err = NoError THEN "ready" ELSE "failed"
           /\ pc' = "returned"
           /\ SetTables(r.tables)
           /\ Observe("__init__", r.err,
                      << Call("__init__", [config |-> config, vr |-> vr],
                              EmptyTables, r.tables, r.err, NoName) >>
                      \o r.log)

\* the caller goes on after a call
Resume ==
    /\ UNCHANGED device_vars
    /\ pc = "returned"
    /\ phase = "ready"
    /\ pc' = "idle"
    /\ Observe("none", NoError, <<>>)
    /\ UNCHANGED << phase, object_names, devices, device_index_map >>

\* poll_vr_events: pollNextEvent delivers an event and the loop body runs
PollNextEvent ==
    /\ UNCHANGED device_vars
    /\ phase = "ready"
    /\ pc \in { "idle", "polling" }
    /\ \E event \in Events :
        LET r == handle_event(tables, event)
        IN /\ event.eventType = VREvent_TrackedDeviceActivated
                  => TotalNames(tables) < MaxNames
           /\ pc' = IF r.err = NoError THEN "handled" ELSE "returned"
           /\ SetTables(r.tables)
           /\ Observe("poll_vr_events", r.err,
                      << Call(event.eventType, event, tables, r.tables,
                              r.err, r.name) >>)
           /\ UNCHANGED phase

\* poll_vr_events: back to the while test
PollLoop ==
    /\ UNCHANGED device_vars
    /\ pc = "handled"
    /\ pc' = "polling"
    /\ Observe("poll_vr_events", NoError, <<>>)
    /\ UNCHANGED << phase, object_names, devices, device_index_map >>

\* poll_vr_events: pollNextEvent finds the queue empty and the method returns
PollReturn ==
    /\ UNCHANGED device_vars
    /\ phase = "ready"
    /\ pc \in { "idle", "polling" }
    /\ pc' = "returned"
    /\ Observe("poll_vr_events", NoError, <<>>)
    /\ UNCHANGED << phase, object_names, devices, device_index_map >>

AddTrackedDevice ==
    /\ UNCHANGED device_vars
    /\ phase = "ready"
    /\ pc = "idle"
    /\ TotalNames(tables) < MaxNames
    /\ \E i \in Slots, c \in HotPlugClasses \cup { TrackedDeviceClass_Invalid } :
        LET r == add_tracked_device(tables, i, c)
        IN /\ pc' = "returned"
           /\ SetTables(r.tables)
           /\ Observe("add_tracked_device", r.err,
                      << Call("add_tracked_device",
                              [slot |-> i, deviceClass |-> c], tables,
                              r.tables, r.err, r.name) >>)
           /\ UNCHANGED phase

RemoveTrackedDevice ==
    /\ UNCHANGED device_vars
    /\ phase = "ready"
    /\ pc = "idle"
    /\ \E i \in Slots :
        LET r == remove_tracked_device(tables, i)
        IN /\ pc' = "returned"
           /\ SetTables(r.tables)
           /\ Observe("remove_tracked_device", r.err,
                      << Call("remove_tracked_device", [slot |-> i], tables,
                              r.tables, r.err, r.name) >>)
           /\ UNCHANGED phase

RenameDevice ==
    /\ UNCHANGED device_vars
    /\ phase = "ready"
    /\ pc = "idle"
    /\ \E old \in OldNames, new \in NewNames :
        LET r == rename_device(tables, old, new)
        IN /\ pc' = "returned"
           /\ SetTables(r.tables)
           /\ Observe("rename_device", r.err,
                      << Call("rename_device", [old |-> old, new |-> new],
                              tables, r.tables, r.err, r.name) >>)
           /\ UNCHANGED phase

Next ==
    \/ Construct
    \/ Resume
    \/ PollNextEvent
    \/ PollLoop
    \/ PollReturn
    \/ AddTrackedDevice
    \/ RemoveTrackedDevice
    \/ RenameDevice

Spec == Init /\ [][Next]_vars


\* ======================================================== PoseSampleBuffer
\* the pose matrices a caller appends
Matrices == { Identity, Moved, ZeroMatrix, QuarterTurnX, HalfTurnX, FlatRow }

\* the timestamps a caller appends, in ticks
Times == 0 .. MaxClock

\* the Tracker not constructed
RegistryUnused ==
    /\ phase = "new"
    /\ object_names = EmptyTables.object_names
    /\ devices = EmptyTables.devices
    /\ device_index_map = EmptyTables.device_index_map

\* one call on the buffer: the exception it raised and len() before it
BufferCall(op, e, n) == [op |-> op, err |-> e, len_before |-> n]

BufferInit ==
    /\ RegistryUnused
    /\ pc = "idle"
    /\ buffer = PoseSampleBuffer
    /\ frame = NoFrame
    /\ value = None
    /\ serial_cache = EmptyCache
    /\ registries = NoRegistries
    /\ queue = <<>>
    /\ handler = "none"
    /\ err = NoError
    /\ log = <<>>

\* buffer.append(pose_mat, t); log holds the calls since the last clear
BufferAppend ==
    /\ len(buffer) < MaxSamples
    /\ \E pose_mat \in Matrices, t \in Times :
        LET r == append(buffer, pose_mat, t)
        IN /\ buffer' = r.buffer
           /\ Observe("append", r.err,
                      Append(log, BufferCall("append", r.err, len(buffer))))
    /\ UNCHANGED << registry_vars, queue, serial_cache, registries, pc, frame,
                   value >>

\* buffer.clear()
BufferClear ==
    /\ buffer' = clear(buffer)
    /\ Observe("clear", NoError, << BufferCall("clear", NoError, len(buffer)) >>)
    /\ UNCHANGED << registry_vars, queue, serial_cache, registries, pc, frame,
                   value >>

BufferNext ==
    \/ BufferAppend
    \/ BufferClear

BufferSpec == BufferInit /\ [][BufferNext]_vars

\* =========================================================== TrackedDevice
\* the handles a caller holds
Handles ==
    { TrackedDevice(0, "Controller"),
      TrackingReference(1, "Tracking Reference") }

\* the arguments of sample()
NumSamples == 0 .. MaxSamples
SampleRates == { 1, 2 }

\* time.time(): the wall clock, which can be set back between two calls
Clock == 0 .. MaxClock

\* pose[self.index] of the snapshots the backend delivers while sampling
SampledPoses ==
    { TrackedDevicePose(TRUE, Identity, << 0, 0, 0 >>, << 0, 0, 0 >>),
      TrackedDevicePose(FALSE, Identity, << 0, 0, 0 >>, << 0, 0, 0 >>),
      NoPose,
      TrackedDevicePose(TRUE, HalfTurnX, << 0, 0, 0 >>, << 0, 0, 0 >>) }

\* pc while sample() runs: "sample_for" at the for statement (line 63),
\* "sample_fetch" before get_pose (line 65), "sample_append" before
\* rtn.append (line 66), "sample_sleep" before line 68

DeviceInit ==
    /\ RegistryUnused
    /\ pc = "idle"
    /\ buffer = PoseSampleBuffer
    /\ frame = NoFrame
    /\ value = None
    /\ serial_cache = EmptyCache
    /\ registries = NoRegistries
    /\ queue = <<>>
    /\ handler = "none"
    /\ err = NoError
    /\ log = <<>>

\* an exception leaves sample(): the caller gets the exception and nothing
\* else; frame keeps the locals as they were when it was raised
Abort(e, f) ==
    /\ pc' = "returned"
    /\ err' = e
    /\ value' = Raised
    /\ frame' = f
    /\ UNCHANGED << handler, log >>

\* TrackingReference.sample without its print statement
Notice_Silent(self) == <<>>

\* what sample() writes to stdout before the shared algorithm starts
Notice(self) ==
    IF self.kind = "TrackingReference" THEN << "print" >> ELSE <<>>

\* device.sample(num_samples, sample_rate) is entered: TrackingReference
\* prints its warning and calls super().sample; lines 59-61 run
SampleCall ==
    /\ pc = "idle"
    /\ \E self \in Handles, num_samples \in NumSamples,
          sample_rate \in SampleRates, now \in Clock :
        /\ frame' = Frame(self, num_samples, sample_rate, now)
        /\ Observe("sample", NoError, Notice(self))
    /\ pc' = "sample_for"
    /\ value' = None
    /\ UNCHANGED << registry_vars, queue, serial_cache, registries, buffer >>

\* for i in range(num_samples): the next iteration records its start, or
\* the loop is over and rtn is returned
SampleFor ==
    /\ pc = "sample_for"
    /\ IF frame.i < frame.num_samples
       THEN /\ \E now \in Clock :
                 frame' = [frame EXCEPT !.start = now, !.slept = 0]
            /\ pc' = "sample_fetch"
            /\ value' = None
       ELSE /\ pc' = "returned"
            /\ value' = Returned("buffer", frame.rtn)
            /\ UNCHANGED frame
    /\ UNCHANGED << registry_vars, queue, serial_cache, registries, buffer,
                   handler, err, log >>

\* pose = get_pose(self.vr): the backend delivers a snapshot or fails
SampleFetch ==
    /\ pc = "sample_fetch"
    /\ \/ /\ \E pose \in SampledPoses :
                 frame' = [frame EXCEPT !.pose = pose, !.fetched = @ + 1]
          /\ pc' = "sample_append"
          /\ log' = Append(log, "fetch")
          /\ UNCHANGED << handler, err, value >>
       \/ Abort(BackendFault, frame)
    /\ UNCHANGED << registry_vars, queue, serial_cache, registries, buffer >>

\* rtn.append(pose[self.index].mDeviceToAbsoluteTracking,
\*            time.time() - sample_start)
SampleAppend ==
    /\ pc = "sample_append"
    /\ \E now \in Clock :
        LET r == append(frame.rtn, frame.pose.mDeviceToAbsoluteTracking,
                        now - frame.sample_start)
            f == [frame EXCEPT
                    !.rtn = r.buffer,
                    !.taken = Append(@, [pose |-> frame.pose,
                                         t |-> now - frame.sample_start])]
        IN IF r.err = NoError
           THEN /\ frame' = f
                /\ pc' = "sample_sleep"
                /\ log' = Append(log, "append")
                /\ UNCHANGED << handler, err, value >>
           ELSE Abort(r.err, f)
    /\ UNCHANGED << registry_vars, queue, serial_cache, registries, buffer >>

\* the end of an iteration sleeping for sleep_time whatever its sign
SampleSleep_Unguarded ==
    /\ pc = "sample_sleep"
    /\ \E now \in Clock :
        LET sleep_time == frame.interval - (now - frame.start)
        IN /\ frame' = [frame EXCEPT !.i = @ + 1, !.slept = sleep_time]
           /\ log' = Append(log, "sleep")
    /\ pc' = "sample_for"
    /\ UNCHANGED << registry_vars, queue, serial_cache, registries, buffer,
                   handler, err, value >>

\* sleep_time = interval - (time.time() - start); sleep when it is positive
SampleSleep ==
    /\ pc = "sample_sleep"
    /\ \E now \in Clock :
        LET sleep_time == frame.interval - (now - frame.start)
        IN /\ frame' = [frame EXCEPT !.i = @ + 1,
                                     !.slept = IF sleep_time > 0
                                               THEN sleep_time ELSE 0]
           /\ log' = IF sleep_time > 0 THEN Append(log, "sleep") ELSE log
    /\ pc' = "sample_for"
    /\ UNCHANGED << registry_vars, queue, serial_cache, registries, buffer,
                   handler, err, value >>

\* Ctrl-C while sample() runs: KeyboardInterrupt is raised in the loop
SampleInterrupt ==
    /\ pc \in { "sample_for", "sample_fetch", "sample_append", "sample_sleep" }
    /\ Abort(KeyboardInterrupt, frame)
    /\ UNCHANGED << registry_vars, queue, serial_cache, registries, buffer >>

\* the entries the snapshots handed to the pose accessors hold
AccessorPoses ==
    { TrackedDevicePose(TRUE, Identity, << 0, 0, 0 >>, << 0, 0, 0 >>),
      TrackedDevicePose(TRUE, Moved, << 1, 0, 0 >>, << 0, 1, 0 >>),
      TrackedDevicePose(FALSE, Moved, << 1, 0, 0 >>, << 0, 1, 0 >>),
      NoPose,
      TrackedDevicePose(TRUE, HalfTurnX, << 0, 0, 0 >>, << 0, 1, 0 >>) }

\* a snapshot: one entry per slot
Snapshot(first, others) == [i \in Slots |-> IF i = 0 THEN first ELSE others]

Snapshots == { Snapshot(a, b) : a \in AccessorPoses, b \in AccessorPoses }

AccessorNames ==
    { "get_pose_euler", "get_pose_matrix", "get_velocity",
      "get_angular_velocity", "get_pose_quaternion" }

\* the pose accessors fetching a snapshot of their own in every call
PoseAccessor_AlwaysFetches ==
    /\ pc = "idle"
    /\ \E name \in AccessorNames, self \in Handles :
        \/ \E pose \in Snapshots, supplied \in BOOLEAN :
               LET r == Accessor(name, self, pose)
               IN /\ value' = r.value
                  /\ Observe(name, r.err,
                             << [self |-> self, pose |-> pose,
                                 supplied |-> supplied, fetched |-> 1] >>)
        \/ /\ value' = Raised
           /\ Observe(name, BackendFault,
                      << [self |-> self, pose |-> Snapshot(NoPose, NoPose),
                          supplied |-> FALSE, fetched |-> 1] >>)
    /\ pc' = "returned"
    /\ UNCHANGED << registry_vars, queue, serial_cache, registries, buffer,
                   frame >>

\* device.get_pose_...(pose): with pose omitted the accessor fetches a
\* snapshot, which the backend delivers or fails to; log holds what the
\* call was given: the snapshot it used, whether the caller supplied it,
\* and the get_pose calls it made
PoseAccessor ==
    /\ pc = "idle"
    /\ \E name \in AccessorNames, self \in Handles :
        \/ \E pose \in Snapshots, supplied \in BOOLEAN :
               LET r == Accessor(name, self, pose)
               IN /\ value' = r.value
                  /\ Observe(name, r.err,
                             << [self |-> self, pose |-> pose,
                                 supplied |-> supplied,
                                 fetched |-> IF supplied THEN 0 ELSE 1] >>)
        \/ /\ value' = Raised
           /\ Observe(name, BackendFault,
                      << [self |-> self, pose |-> Snapshot(NoPose, NoPose),
                          supplied |-> FALSE, fetched |-> 1] >>)
    /\ pc' = "returned"
    /\ UNCHANGED << registry_vars, queue, serial_cache, registries, buffer,
                   frame >>

\* the caller of the handle goes on after a call
DeviceResume ==
    /\ pc = "returned"
    /\ pc' = "idle"
    /\ frame' = NoFrame
    /\ value' = None
    /\ Observe("none", NoError, <<>>)
    /\ UNCHANGED << registry_vars, queue, serial_cache, registries, buffer >>

DeviceNext ==
    \/ SampleCall
    \/ SampleFor
    \/ SampleFetch
    \/ SampleAppend
    \/ SampleSleep
    \/ SampleInterrupt
    \/ PoseAccessor
    \/ DeviceResume

DeviceSpec == DeviceInit /\ [][DeviceNext]_vars

\* ============================================================== get_serial
\* device.get_serial(): log holds the handle, the backend's answer at the
\* time of the call and the cache before the call
GetSerial ==
    /\ pc = "idle"
    /\ \E o \in DOMAIN Objects :
        /\ serial_cache[o].result = NoSerial
               => serial_cache[o].queries < MaxQueries
        /\ \E answer \in { SerialOf(0), SerialOf(1), BackendFault } :
            LET r == get_serial(serial_cache, o, answer)
            IN /\ serial_cache' = r.cache
               /\ value' = r.value
               /\ Observe("get_serial", r.err,
                          << [self |-> o, answer |-> answer,
                              before |-> serial_cache] >>)
    /\ pc' = "returned"
    /\ UNCHANGED << registry_vars, queue, registries, buffer, frame >>

SerialNext ==
    \/ GetSerial
    \/ DeviceResume

SerialSpec == DeviceInit /\ [][SerialNext]_vars

\* ======================================================= Tracker lifecycle
\* how __init__ can end once openvr.init has returned: with each
\* configuration, the faults the backends lead it to
InitOutcomes ==
    { [config |-> config, err |-> init(config, vr).err] :
        config \in Configs, vr \in Backends }

\* Tracker(configfile_path): openvr.init raises, or it returns and the rest
\* of __init__ runs against the backend's snapshot
TrackerNew ==
    /\ pc = "idle"
    /\ \E r \in Registries :
        /\ registries[r].state = "unborn"
        /\ \/ /\ registries' =
                    [registries EXCEPT ![r].state = "failed"]
              /\ Observe("__init__", BackendFault,
                         << [registry |-> r, config |-> NoConfig] >>)
           \/ \E o \in InitOutcomes :
                 /\ registries' =
                       [registries EXCEPT
                           ![r].initialized = TRUE,
                           ![r].state = IF o.err = NoError
                                        THEN "ready" ELSE "failed"]
                 /\ Observe("__init__", o.err,
                            << [registry |-> r, config |-> o.config] >>)
    /\ pc' = "returned"
    /\ UNCHANGED << registry_vars, queue, serial_cache, buffer, frame, value >>

\* the Tracker object is collected and its __del__ runs; that is so for an
\* object whose __init__ raised as well
TrackerDel ==
    /\ pc = "idle"
    /\ \E r \in Registries :
        /\ registries[r].state \in { "ready", "failed" }
        /\ registries' = [registries EXCEPT ![r].state = "collected",
                                            ![r].shutdowns = @ + 1]
        /\ Observe("__del__", NoError,
                   << [registry |-> r, config |-> NoConfig] >>)
    /\ pc' = "returned"
    /\ UNCHANGED << registry_vars, queue, serial_cache, buffer, frame, value >>

LifecycleNext ==
    \/ TrackerNew
    \/ TrackerDel
    \/ DeviceResume

LifecycleSpec == DeviceInit /\ [][LifecycleNext]_vars

\* ===================================================== lookup by serial
\* tracker.get_device_by_serial(serial) on a constructed registry; the
\* backend returns its strings as bytes or as str, depending on the openvr
\* package installed
GetDeviceBySerial ==
    /\ phase = "ready"
    /\ pc = "idle"
    /\ \E s \in { SerialOf(0), SerialOf(k_unMaxTrackedDeviceCount) },
          type \in { "bytes", "str" },
          texts \in [1 .. Len(devices) ->
                        { SerialOf(0), SerialOf(1), BackendFault }] :
        LET answers == [j \in 1 .. Len(devices) |->
                           [type |-> IF texts[j] = BackendFault
                                     THEN "raised" ELSE type,
                            text |-> texts[j]]]
            r == get_device_by_serial(tables, 1, s, answers)
        IN /\ value' = r.value
           /\ Observe("get_device_by_serial", r.err,
                      << [serial |-> s, answers |-> answers,
                          pre |-> tables] >>)
    /\ pc' = "returned"
    /\ UNCHANGED << registry_vars, queue, serial_cache, registries, buffer,
                   frame >>

LookupNext ==
    \/ Construct
    \/ GetDeviceBySerial
    \/ DeviceResume

LookupSpec == Init /\ [][LookupNext]_vars

\* ========================================================== the converters
\* the 3x4 matrices given to the converters: every translation within the
\* bound next to a rotation block on which the arithmetic above is exact;
\* the blocks are the identity, the half turns about x and about z, a
\* shear with m[2][1] - m[1][2] = 4, and two diagonals of sum -4 and 16
PoseMatrices ==
    { [r \in 1 .. 3 |-> block[r] \o << v[r] >>] :
        block \in { << << 1, 0, 0 >>, << 0, 1, 0 >>, << 0, 0, 1 >> >>,
                    << << 1, 0, 0 >>, << 0, -1, 0 >>, << 0, 0, -1 >> >>,
                    << << -1, 0, 0 >>, << 0, -1, 0 >>, << 0, 0, 1 >> >>,
                    << << 1, 0, 0 >>, << 0, 2, -2 >>, << 0, 2, 0 >> >>,
                    << << -3, 0, 0 >>, << 0, -1, 0 >>, << 0, 0, -1 >> >>,
                    << << 7, 0, 0 >>, << 0, 7, 0 >>, << 0, 0, 1 >> >> },
        v \in [1 .. 3 -> (0 - MaxCoord) .. MaxCoord] }

\* utils.convert_to_euler(pose_mat) or utils.convert_to_quaternion(pose_mat)
Convert ==
    /\ pc = "idle"
    /\ \E pose_mat \in PoseMatrices :
        \/ /\ value' = convert_to_euler(pose_mat).value
           /\ Observe("convert_to_euler", convert_to_euler(pose_mat).err,
                      << pose_mat >>)
        \/ /\ value' = convert_to_quaternion(pose_mat).value
           /\ Observe("convert_to_quaternion",
                      convert_to_quaternion(pose_mat).err, << pose_mat >>)
    /\ pc' = "returned"
    /\ UNCHANGED << registry_vars, queue, serial_cache, registries, buffer,
                   frame >>

ConvertNext ==
    \/ Convert
    \/ DeviceResume

ConvertSpec == DeviceInit /\ [][ConvertNext]_vars

\* ================================================== polling a finite queue
\* poll_vr_events is called on the constructed registry while the backend
\* holds a finite queue of hot-plug events: log keeps the queue and the
\* tables the call meets
PollCall ==
    /\ phase = "ready"
    /\ pc = "returned"
    /\ handler = "__init__"
    /\ pc' = "polling"
    /\ \E n \in 0 .. MaxQueue :
        \E q \in [1 .. n -> Events] :
            /\ queue' = q
            /\ Observe("poll_vr_events", NoError,
                       << [queue |-> q, pre |-> tables] >>)
    /\ UNCHANGED << registry_vars, buffer, frame, value, serial_cache,
                   registries >>

\* the polling loop taking the newest event first
PollQueued_NewestFirst ==
    /\ pc = "polling"
    /\ queue # <<>>
    /\ LET r == handle_event(tables, queue[Len(queue)])
       IN /\ SetTables(r.tables)
          /\ pc' = IF r.err = NoError THEN "polling" ELSE "returned"
          /\ err' = r.err
    /\ queue' = SubSeq(queue, 1, Len(queue) - 1)
    /\ UNCHANGED << phase, handler, log, buffer, frame, value, serial_cache,
                   registries >>

\* pollNextEvent hands over the oldest event of the queue and the loop body
\* runs on it
PollQueued ==
    /\ pc = "polling"
    /\ queue # <<>>
    /\ LET r == handle_event(tables, Head(queue))
       IN /\ SetTables(r.tables)
          /\ pc' = IF r.err = NoError THEN "polling" ELSE "returned"
          /\ err' = r.err
    /\ queue' = Tail(queue)
    /\ UNCHANGED << phase, handler, log, buffer, frame, value, serial_cache,
                   registries >>

\* pollNextEvent finds the queue empty: the loop ends and the method returns
PollEmpty ==
    /\ pc = "polling"
    /\ queue = <<>>
    /\ pc' = "returned"
    /\ UNCHANGED << registry_vars, device_vars, handler, err, log >>

PollNext ==
    \/ Construct
    \/ PollCall
    \/ PollQueued
    \/ PollEmpty

PollSpec == Init /\ [][PollNext]_vars

\* the interpreter goes on with a poll_vr_events call that has begun
FairPollSpec == PollSpec /\ WF_vars(PollQueued) /\ WF_vars(PollEmpty)

\* ================================================================= claims
\* helpers of the claims' formulas
NoDuplicates(l) == \A j, k \in 1 .. Len(l) : l[j] = l[k] => j = k

Elements(l) == { l[j] : j \in 1 .. Len(l) }

NamesOfClass(d, c) ==
    { d[j].name : j \in { k \in 1 .. Len(d) : d[k].handle.device_class = c } }

SlotsOf(d) == { d[j].handle.index : j \in 1 .. Len(d) }

IsAddCall(c) ==
    \/ c.op = "add_tracked_device"
    \/ c.op = VREvent_TrackedDeviceActivated

\* the call a direct method call or one polling step has made
TheCall == log[Len(log)]

\* C1: in every state of a constructed registry each per-class name list
\* holds, without duplicates, exactly the names of the name table whose
\* handle has that class.
C1_ListsMatchNameTable ==
    phase = "ready" =>
        \A c \in ClassNames :
            /\ NoDuplicates(object_names[c])
            /\ Elements(object_names[c]) = NamesOfClass(devices, c)

\* C2: add_tracked_device never assigns a name that is already the key of a
\* registered device, so it never replaces an existing handle.
C2_AddAssignsFreshName ==
    \A k \in 1 .. Len(log) :
        (IsAddCall(log[k]) /\ log[k].name # NoName)
            => ~HasKey(log[k].pre.devices, log[k].name)

\* C3: in every state of a constructed registry the slot-index map and the
\* name table agree: every mapped slot names a registered device whose handle
\* has that slot, and every handle's slot is mapped.
C3_IndexMapAgreesWithNameTable ==
    phase = "ready" =>
        /\ \A i \in DOMAIN device_index_map :
               /\ HasKey(devices, device_index_map[i])
               /\ DictGet(devices, device_index_map[i]).index = i
        /\ \A j \in 1 .. Len(devices) :
               devices[j].handle.index \in DOMAIN device_index_map

\* C4: remove_tracked_device(i) for a slot that is not tracked raises the
\* invalid-device-index exception and leaves the three tables unchanged.
C4_RemoveUntrackedFails ==
    (/\ handler = "remove_tracked_device"
     /\ TheCall.args.slot \notin DOMAIN TheCall.pre.device_index_map)
        => /\ err = InvalidDeviceIndex
           /\ tables = TheCall.pre

C4_Witness ==
    /\ handler = "remove_tracked_device"
    /\ TheCall.args.slot \notin DOMAIN TheCall.pre.device_index_map
    /\ TheCall.pre.devices # <<>>
    /\ TheCall.pre.device_index_map # EmptyMap

\* C5: a Deactivated event for a slot that is not tracked is ignored by
\* poll_vr_events: no exception, the three tables unchanged, the loop goes on.
C5_DeactivatedUntrackedIgnored ==
    (/\ handler = "poll_vr_events"
     /\ log # <<>>
     /\ TheCall.op = VREvent_TrackedDeviceDeactivated
     /\ TheCall.args.trackedDeviceIndex
            \notin DOMAIN TheCall.pre.device_index_map)
        => /\ err = NoError
           /\ pc = "handled"
           /\ tables = TheCall.pre

C5_Witness ==
    /\ handler = "poll_vr_events"
    /\ log # <<>>
    /\ TheCall.op = VREvent_TrackedDeviceDeactivated
    /\ TheCall.args.trackedDeviceIndex
           \notin DOMAIN TheCall.pre.device_index_map
    /\ TheCall.pre.device_index_map # EmptyMap
    /\ pc = "handled"

\* C6: a Deactivated event for the slot of a device that has a handle removes
\* that handle without raising: afterwards the device's name is not
\* connected and no handle with that slot remains.
C6_DeactivatedRemovesHandle ==
    (/\ handler = "poll_vr_events"
     /\ log # <<>>
     /\ TheCall.op = VREvent_TrackedDeviceDeactivated
     /\ TheCall.args.trackedDeviceIndex \in SlotsOf(TheCall.pre.devices))
        => /\ err = NoError
           /\ TheCall.args.trackedDeviceIndex \notin SlotsOf(devices)
           /\ \A j \in 1 .. Len(TheCall.pre.devices) :
                  TheCall.pre.devices[j].handle.index
                      = TheCall.args.trackedDeviceIndex
                  => ~is_device_connected(tables, TheCall.pre.devices[j].name)

\* C7: rename_device(old, new) for a registered old makes the handle of old
\* reachable under new and not under old, puts new where old stood in the
\* handle's class list, and leaves the number of registered devices
\* unchanged, also when new already names another registered device.
C7_RenameKeepsDevices ==
    (/\ handler = "rename_device"
     /\ HasKey(TheCall.pre.devices, TheCall.args.old))
        => LET old == TheCall.args.old
               new == TheCall.args.new
               h == DictGet(TheCall.pre.devices, old)
               before == TheCall.pre.object_names[h.device_class]
               after == object_names[h.device_class]
           IN /\ err = NoError
              /\ HasKey(devices, new)
              /\ DictGet(devices, new) = h
              /\ new # old => ~HasKey(devices, old)
              /\ Len(after) = Len(before)
              /\ \A j \in 1 .. Len(before) :
                     after[j] = IF before[j] = old THEN new ELSE before[j]
              /\ Len(devices) = Len(TheCall.pre.devices)

\* C8 as stated: rename_device(old, new) for an old that is not registered
\* raises nothing and leaves the three tables unchanged.
C8_RenameUnknownSilent ==
    (/\ handler = "rename_device"
     /\ ~HasKey(TheCall.pre.devices, TheCall.args.old))
        => /\ err = NoError
           /\ tables = TheCall.pre

\* C8 as amended: rename_device(old, new) for an old that is not registered
\* raises KeyError and leaves the three tables unchanged.
C8_RenameUnknownRaises ==
    (/\ handler = "rename_device"
     /\ ~HasKey(TheCall.pre.devices, TheCall.args.old))
        => /\ err = KeyError
           /\ tables = TheCall.pre

C8_Witness ==
    /\ handler = "rename_device"
    /\ ~HasKey(TheCall.pre.devices, TheCall.args.old)
    /\ TheCall.pre.devices # <<>>
    /\ TheCall.pre.device_index_map # EmptyMap

\* the construction that has just returned
TheInit == log[1]

ListsMatchHandles(t) ==
    \A c \in ClassNames :
        \A j \in 1 .. Len(t.object_names[c]) :
            /\ HasKey(t.devices, t.object_names[c][j])
            /\ DictGet(t.devices, t.object_names[c][j]).device_class = c

\* C9 as stated: after a construction against a snapshot with N connected
\* slots, with or without configuration and whatever class each slot
\* reports, the class lists hold N names together and every name maps to a
\* handle of its list's class.
C9_ListsHoldEveryConnectedSlot ==
    (handler = "__init__" /\ err = NoError)
        => /\ TotalNames(tables) = Cardinality(TheInit.args.vr.connected)
           /\ ListsMatchHandles(tables)

KnownBackendClasses ==
    { TrackedDeviceClass_Controller, TrackedDeviceClass_HMD,
      TrackedDeviceClass_GenericTracker, TrackedDeviceClass_TrackingReference }

DistinctEntryNames(entries) ==
    \A j, k \in 1 .. Len(entries) : entries[j].name = entries[k].name => j = k

\* C9 as amended: after a construction without configuration the class
\* lists hold one name for each connected slot that reports one of the four
\* known classes; after a construction with a configuration they hold one
\* name for each pair of a connected slot and a configuration entry with
\* that slot's serial; and, the configured names being distinct, every name
\* maps to a handle of its list's class.
C9_ListsHoldEveryRegisteredSlot ==
    (handler = "__init__" /\ err = NoError)
        => LET vr == TheInit.args.vr
               config == TheInit.args.config
           IN /\ config.kind = "none" =>
                     TotalNames(tables)
                         = Cardinality({ i \in vr.connected :
                                           vr.deviceClass[i]
                                               \in KnownBackendClasses })
              /\ config.kind # "none" =>
                     TotalNames(tables)
                         = Cardinality({ p \in vr.connected
                                               \X (1 .. Len(config.devices)) :
                                           config.devices[p[2]].serial
                                               = SerialOf(p[1]) })
              /\ DistinctEntryNames(config.devices)
                     => ListsMatchHandles(tables)

C9_Witness ==
    /\ handler = "__init__"
    /\ err = NoError
    /\ TotalNames(tables) = 2
    /\ TotalNames(tables) = Cardinality(TheInit.args.vr.connected)
    /\ TheInit.args.config.kind = "none"

\* the names the claim expects, written out
ExpectedNames ==
    [c \in ClassNames |->
        CASE c = "Controller" ->
                 << "controller_1", "controller_2", "controller_3",
                    "controller_4" >>
          [] c = "HMD" -> << "hmd_1", "hmd_2", "hmd_3", "hmd_4" >>
          [] c = "Tracker" ->
                 << "tracker_1", "tracker_2", "tracker_3", "tracker_4" >>
          [] c = "Tracking Reference" ->
                 << "tracking_reference_1", "tracking_reference_2",
                    "tracking_reference_3", "tracking_reference_4" >>]

RegistryClassOf(backend_class) ==
    CASE backend_class = TrackedDeviceClass_Controller -> "Controller"
      [] backend_class = TrackedDeviceClass_HMD -> "HMD"
      [] backend_class = TrackedDeviceClass_GenericTracker -> "Tracker"
      [] backend_class = TrackedDeviceClass_TrackingReference
             -> "Tracking Reference"

\* C10: a construction without configuration names the connected devices of
\* each class in increasing slot order, the k-th one <class prefix>_k, and
\* get_devices_by_type returns their handles in that order; one Controller
\* at slot 0 alone gives devices["controller_1"] as the only element.
C10_SequentialNamesInSlotOrder ==
    (handler = "__init__" /\ TheInit.args.config.kind = "none")
        => LET vr == TheInit.args.vr
               Same(i) == { j \in vr.connected :
                              j <= i /\ vr.deviceClass[j] = vr.deviceClass[i] }
           IN /\ err = NoError
              /\ \A i \in vr.connected :
                     vr.deviceClass[i] \in KnownBackendClasses =>
                         LET c == RegistryClassOf(vr.deviceClass[i])
                             k == Cardinality(Same(i))
                             n == ExpectedNames[c][k]
                             got == get_devices_by_type(tables, c)
                         IN /\ HasKey(devices, n)
                            /\ DictGet(devices, n).index = i
                            /\ DictGet(devices, n).device_class = c
                            /\ got.err = NoError
                            /\ Len(got.value) >= k
                            /\ got.value[k] = DictGet(devices, n)
              /\ \A b \in KnownBackendClasses :
                     Len(get_devices_by_type(tables, RegistryClassOf(b)).value)
                         = Cardinality({ i \in vr.connected :
                                           vr.deviceClass[i] = b })

C10_Witness ==
    /\ handler = "__init__"
    /\ TheInit.args.config.kind = "none"
    /\ TheInit.args.vr.connected = { 0, 1 }
    /\ TheInit.args.vr.deviceClass[0] = TrackedDeviceClass_Controller
    /\ TheInit.args.vr.deviceClass[1] = TrackedDeviceClass_Controller
    /\ HasKey(devices, "controller_2")
    /\ Len(get_devices_by_type(tables, "Controller").value) = 2

\* a class string that is not a key of object_names
UnknownClassName == "Gamepad"

\* C11: in every state of a constructed registry get_devices_by_type(class)
\* returns without error, for each of the four classes one handle per name
\* of that class's list, in the list's order, each handle having that class,
\* and for a class string that is not one of the four the empty list.
C11_ByTypeReturnsListHandles ==
    phase = "ready" =>
        \A c \in ClassNames \cup { UnknownClassName } :
            LET got == get_devices_by_type(tables, c)
            IN /\ got.err = NoError
               /\ c \in ClassNames =>
                      /\ Len(got.value) = Len(object_names[c])
                      /\ \A j \in 1 .. Len(got.value) :
                             /\ got.value[j] = DictGet(devices, object_names[c][j])
                             /\ got.value[j].device_class = c
               /\ c \notin ClassNames => got.value = <<>>

\* the eleven columns of a buffer
Columns(b) ==
    << b.time, b.x, b.y, b.z, b.yaw, b.pitch, b.roll, b.r_w, b.r_x, b.r_y,
       b.r_z >>

\* C12: after any sequence of append and clear calls, an append that fails
\* on a zero divisor included, the eleven columns of the buffer have the
\* same length.
C12_ColumnsInLockStep ==
    \A j, k \in 1 .. Len(Columns(buffer)) :
        Len(Columns(buffer)[j]) = Len(Columns(buffer)[k])

\* the append calls since the buffer was constructed or last cleared
AppendsSinceClear == SelectSeq(log, LAMBDA c : c.op = "append")

SampleReturned == handler = "sample" /\ pc = "returned" /\ err = NoError

\* C14: a sample(num_samples, sample_rate) call that completes returns a
\* buffer of exactly num_samples entries whose relative timestamps are
\* non-decreasing in append order.
C14_SampleCountAndTimeOrder ==
    SampleReturned =>
        /\ value.kind = "buffer"
        /\ len(value.v) = frame.num_samples
        /\ \A j \in 1 .. (len(value.v) - 1) :
               value.v.time[j] <= value.v.time[j + 1]

\* the sample() call that has just been ended by a backend fault or by an
\* interrupt
SampleAborted ==
    /\ handler = "sample"
    /\ pc = "returned"
    /\ err \in { BackendFault, KeyboardInterrupt }

\* the iterations of the running call that have appended
Appended == Len(SelectSeq(log, LAMBDA step : step = "append"))

\* C15: a sampling run ended by a backend fault or an interrupt after j of
\* its iterations have appended hands its caller the buffer with exactly
\* those j entries, together with the fault.
C15_AbortHandsBackPartialBuffer ==
    SampleAborted =>
        /\ value.kind = "buffer"
        /\ value.v = frame.rtn
        /\ len(value.v) = Appended

\* the shared algorithm on the backend's behaviour: one append per snapshot
\* taken, in order
RECURSIVE Replay(_, _)
Replay(b, taken) ==
    IF taken = <<>>
    THEN b
    ELSE Replay(append(b, Head(taken).pose.mDeviceToAbsoluteTracking,
                       Head(taken).t).buffer,
                Tail(taken))

\* C19: TrackingReference.sample prints its notice once, before the first
\* snapshot fetch, and then runs the shared algorithm: the buffer it returns
\* holds one entry per requested sample, the ones the shared sample() derives
\* from the snapshots the backend delivered; a handle of the base type
\* prints nothing.
C19_NoticeThenSharedSample ==
    handler = "sample" =>
        /\ frame.self.kind = "TrackingReference" =>
               /\ log # <<>>
               /\ log[1] = "print"
               /\ \A j \in 2 .. Len(log) : log[j] # "print"
        /\ frame.self.kind = "TrackedDevice" =>
               \A j \in 1 .. Len(log) : log[j] # "print"
        /\ SampleReturned =>
               /\ value.kind = "buffer"
               /\ value.v = Replay(PoseSampleBuffer, frame.taken)
               /\ Len(frame.taken) = frame.num_samples
               /\ frame.fetched = frame.num_samples

C19_Witness ==
    /\ SampleReturned
    /\ frame.self.kind = "TrackingReference"
    /\ frame.num_samples = 2
    /\ len(value.v) = 2
    /\ log = << "print", "fetch", "append", "fetch", "append", "sleep" >>

\* the pose accessor call that has just ended with a snapshot in hand
AccessorUsedSnapshot == handler \in AccessorNames /\ err # BackendFault

\* the entry of the handle's slot in the snapshot the accessor used
UsedEntry == log[1].pose[log[1].self.index]

\* the value the accessor derives from a valid entry
Derived(name, entry) ==
    CASE name = "get_pose_euler" ->
             convert_to_euler(entry.mDeviceToAbsoluteTracking).value
      [] name = "get_pose_matrix" ->
             Returned("matrix", entry.mDeviceToAbsoluteTracking)
      [] name = "get_velocity" -> Returned("vector", entry.vVelocity)
      [] name = "get_angular_velocity" ->
             Returned("vector", entry.vAngularVelocity)
      [] name = "get_pose_quaternion" ->
             convert_to_quaternion(entry.mDeviceToAbsoluteTracking).value

\* C16 as stated: each of the five pose accessors returns None, without
\* raising, exactly when the snapshot it uses marks the pose of the
\* handle's slot invalid, and otherwise returns the value derived from that
\* slot's entry.
C16_AccessorsNoneIffInvalid ==
    AccessorUsedSnapshot =>
        /\ err = NoError
        /\ (value.kind = "None") = ~UsedEntry.bPoseIsValid
        /\ UsedEntry.bPoseIsValid => value = Derived(handler, UsedEntry)

\* the matrix makes the quaternion's divisor 4 * r_w zero
ZeroW(pose_mat) ==
    1 + At(pose_mat, 0, 0) + At(pose_mat, 1, 1) + At(pose_mat, 2, 2) = 0

\* C16 as amended: each of the five pose accessors returns None, without
\* raising, when the snapshot it uses marks the pose of the handle's slot
\* invalid; for a valid pose it returns the value derived from that slot's
\* entry, except that get_pose_quaternion raises ZeroDivisionError when
\* 1 + m[0][0] + m[1][1] + m[2][2] = 0.
C16_AccessorsNoneIffInvalidOrZeroW ==
    AccessorUsedSnapshot =>
        IF /\ handler = "get_pose_quaternion"
           /\ UsedEntry.bPoseIsValid
           /\ ZeroW(UsedEntry.mDeviceToAbsoluteTracking)
        THEN err = ZeroDivisionError /\ value = Raised
        ELSE /\ err = NoError
             /\ (value.kind = "None") = ~UsedEntry.bPoseIsValid
             /\ UsedEntry.bPoseIsValid => value = Derived(handler, UsedEntry)

C16_Witness ==
    /\ handler = "get_velocity"
    /\ log[1].self.index = 1
    /\ log[1].pose[0].bPoseIsValid
    /\ ~log[1].pose[1].bPoseIsValid
    /\ log[1].pose[1].mDeviceToAbsoluteTracking = Moved
    /\ value = None

\* C17 as stated: get_serial() queries the backend at most once per handle;
\* a call on a handle that was called before returns the value of the
\* first call without a query, whatever the backend would answer now, and
\* never the value cached for another handle.
C17_SerialQueriedOncePerHandle ==
    /\ \A o \in DOMAIN Objects : serial_cache[o].queries <= 1
    /\ handler = "get_serial" =>
           LET o == log[1].self
               before == log[1].before[o]
           IN before.queries > 0 =>
                  /\ err = NoError
                  /\ value = Returned("str", before.result)
                  /\ serial_cache = [serial_cache EXCEPT ![o] = before]

\* C17 as amended: once a get_serial() call on a handle has returned, every
\* later call on that handle returns the same value without a backend
\* query, whatever the backend would answer now, and never the value cached
\* for another handle; a call on a handle without a cached value queries
\* the backend once, and a query that raises caches nothing, so the next
\* call queries again.
C17_SerialCachedOnceReturned ==
    /\ \A o \in DOMAIN Objects :
           serial_cache[o].result = NoSerial \/ serial_cache[o].queries >= 1
    /\ handler = "get_serial" =>
           LET o == log[1].self
               before == log[1].before[o]
               answer == log[1].answer
           IN /\ \A q \in DOMAIN Objects :
                     q # o => serial_cache[q] = log[1].before[q]
              /\ before.result # NoSerial =>
                     /\ err = NoError
                     /\ value = Returned("str", before.result)
                     /\ serial_cache[o] = before
              /\ before.result = NoSerial =>
                     /\ serial_cache[o].queries = before.queries + 1
                     /\ answer = BackendFault =>
                            /\ err = BackendFault
                            /\ serial_cache[o].result = NoSerial
                     /\ answer # BackendFault =>
                            /\ err = NoError
                            /\ value = Returned("str", answer)
                            /\ serial_cache[o].result = answer

C17_Witness ==
    /\ handler = "get_serial"
    /\ log[1].self = 2
    /\ serial_cache[1].result = SerialOf(0)
    /\ log[1].before[2].result = SerialOf(1)
    /\ log[1].answer = SerialOf(0)
    /\ value = Returned("str", SerialOf(1))

\* C18: each Tracker teardown performs exactly one backend shutdown, and no
\* Tracker performs a shutdown without a successful openvr.init of its own
\* before it, also when construction fails at openvr.init or while the
\* configuration is loaded, and with several Trackers in the process.
C18_OneShutdownAfterInitialize ==
    \A r \in Registries :
        /\ registries[r].shutdowns <= 1
        /\ registries[r].state = "collected" => registries[r].shutdowns = 1
        /\ registries[r].shutdowns > 0 => registries[r].initialized

\* C20: in every reachable state of the registry a handle is of the
\* TrackingReference subtype if and only if its device class is
\* "Tracking Reference", whether it was created from the configuration, by
\* auto-assignment or by a connect event.
C20_SubtypeIffTrackingReference ==
    \A j \in 1 .. Len(devices) :
        devices[j].handle.kind = "TrackingReference"
            <=> devices[j].handle.device_class = "Tracking Reference"

\* a tracking reference from the configuration next to one a connect event
\* added
C20_Witness ==
    /\ handler = "poll_vr_events"
    /\ \E j, k \in 1 .. Len(devices) :
        /\ devices[j].name = "base"
        /\ devices[j].handle = TrackingReference(1, "Tracking Reference")
        /\ devices[k].name # "base"
        /\ devices[k].handle = TrackingReference(0, "Tracking Reference")

\* C21: when the configuration given to the constructor is unreadable or
\* malformed (missing file, invalid JSON, no 'devices' list, or an entry
\* whose type is none of the four device classes), construction ends in a
\* fault and yields no registry.
C21_MalformedConfigIsFatal ==
    handler = "__init__" =>
        LET config == TheInit.args.config
        IN (\/ config.kind \in { "unreadable", "invalid_json",
                                 "no_devices_key" }
            \/ \E k \in 1 .. Len(config.devices) :
                   config.devices[k].type \notin ClassNames)
           => /\ err # NoError
              /\ phase = "failed"

\* C22: get_device_by_serial(s) returns the first handle, in the order of the
\* name table, whose serial is s, and None when no registered handle has
\* serial s; it does not raise and leaves the registry tables as they were.
\* Stated for calls in which every get_serial() of the scan returned.
C22_BySerialReturnsFirstMatch ==
    handler = "get_device_by_serial" =>
        LET answers == log[1].answers
            hits == { j \in 1 .. Len(devices) :
                        answers[j].text = log[1].serial }
        IN (\A j \in 1 .. Len(devices) : answers[j].type # "raised")
           => /\ err = NoError
              /\ tables = log[1].pre
              /\ hits = {} => value = None
              /\ hits # {} =>
                     value = Returned("handle",
                                 devices[CHOOSE j \in hits :
                                     \A q \in hits : j <= q].handle)

\* C23: whenever convert_to_euler or convert_to_quaternion succeeds on a 3x4
\* matrix m, it returns a list of 6, respectively 7, elements whose first
\* three are m[0][3], m[1][3], m[2][3], whatever the rotation block is.
C23_TranslationFromColumnThree ==
    handler \in { "convert_to_euler", "convert_to_quaternion" }
        /\ err = NoError
    => /\ value.kind = "list"
       /\ Len(value.v) = IF handler = "convert_to_euler" THEN 6 ELSE 7
       /\ SubSeq(value.v, 1, 3)
              = << At(log[1], 0, 3), At(log[1], 1, 3), At(log[1], 2, 3) >>

C23_Witness ==
    /\ handler = "convert_to_euler"
    /\ At(log[1], 1, 2) = -2
    /\ SubSeq(value.v, 1, 3) = << 1, 0, -1 >>

\* C24: for the identity pose matrix convert_to_euler returns
\* [0, 0, 0, 0, 0, 0] and convert_to_quaternion returns
\* [0, 0, 0, 1, 0, 0, 0].
C24_IdentityConverts ==
    /\ handler = "convert_to_euler" /\ log[1] = Identity
           => value = Returned("list", << 0, 0, 0, 0, 0, 0 >>)
    /\ handler = "convert_to_quaternion" /\ log[1] = Identity
           => value = Returned("list", << 0, 0, 0, 1, 0, 0, 0 >>)

C24_Witness ==
    /\ handler = "convert_to_quaternion"
    /\ log[1] = Identity
    /\ err = NoError
    /\ value.v[4] = 1

\* C25: convert_to_quaternion raises the division-by-zero fault, and returns
\* nothing, exactly for the matrices with
\* 1 + m[0][0] + m[1][1] + m[2][2] == 0; for every other matrix it returns
\* its list without a fault.
C25_QuaternionFaultsIffZeroW ==
    handler = "convert_to_quaternion" =>
        IF 1 + At(log[1], 0, 0) + At(log[1], 1, 1) + At(log[1], 2, 2) = 0
        THEN err = ZeroDivisionError /\ value = Raised
        ELSE err = NoError /\ value.kind = "list"

C25_Witness ==
    /\ handler = "convert_to_quaternion"
    /\ At(log[1], 0, 0) = -1
    /\ At(log[1], 2, 2) = 1
    /\ err = ZeroDivisionError

\* C26: a tracked device that was renamed stays removable by its slot:
\* remove_tracked_device(slot) on a slot of the slot-index map whose handle
\* is registered under the new name "right" completes without error and
\* takes the handle out of the name table, the name out of its class list
\* and the slot out of the slot-index map.
C26_RenamedStaysRemovable ==
    handler = "remove_tracked_device" =>
        LET i == TheCall.args.slot
            pre == TheCall.pre
        IN /\ i \in DOMAIN pre.device_index_map
           /\ HasKey(pre.devices, "right")
           /\ DictGet(pre.devices, "right").index = i
           => /\ err = NoError
              /\ ~HasKey(devices, "right")
              /\ ~InList(object_names[DictGet(pre.devices, "right").device_class],
                         "right")
              /\ i \notin DOMAIN device_index_map

\* handle_event on the events of q in their order, as far as none raises
RECURSIVE Drain(_, _)
Drain(t, q) ==
    IF q = <<>>
    THEN t
    ELSE Drain(handle_event(t, Head(q)).tables, Tail(q))

\* C27: poll_vr_events ends for every finite event queue; when it returns
\* normally the queue is empty and the tables are those the queued events
\* give when add_tracked_device and remove_tracked_device are applied for
\* them in queue order, so that a slot whose Connected event is directly
\* followed by its Disconnected event, with no later Connected event, is
\* not tracked.
C27_PollDrainsQueueInOrder ==
    /\ [](handler = "poll_vr_events" /\ pc = "returned" /\ err = NoError
            => /\ queue = <<>>
               /\ tables = Drain(log[1].pre, log[1].queue)
               /\ \A k \in 1 .. (Len(log[1].queue) - 1) :
                      LET q == log[1].queue
                          i == q[k].trackedDeviceIndex
                      IN /\ q[k].eventType = VREvent_TrackedDeviceActivated
                         /\ q[k + 1].eventType
                                = VREvent_TrackedDeviceDeactivated
                         /\ q[k + 1].trackedDeviceIndex = i
                         /\ \A j \in (k + 2) .. Len(q) :
                                q[j].trackedDeviceIndex # i
                         => i \notin DOMAIN device_index_map)
    /\ (pc = "polling" ~> pc = "returned")

C27_Witness ==
    /\ handler = "poll_vr_events"
    /\ pc = "returned"
    /\ err = NoError
    /\ Len(log[1].queue) = 2
    /\ log[1].queue[1].eventType = VREvent_TrackedDeviceActivated
    /\ log[1].queue[1].deviceClass = TrackedDeviceClass_Controller
    /\ log[1].queue[2].eventType = VREvent_TrackedDeviceDeactivated
    /\ log[1].queue[2].trackedDeviceIndex = log[1].queue[1].trackedDeviceIndex
    /\ HasKey(log[1].pre.devices, "controller_1")
    /\ tables = log[1].pre

\* C28: each iteration of the sampling loop records its start, then fetches
\* exactly one snapshot, then appends one entry stamped with the time since
\* the run began, then sleeps for max(0, interval - time spent in the
\* iteration), never for a negative time; a run that completes has fetched
\* exactly num_samples snapshots.
C28_IterationOrder ==
    /\ [](handler = "sample" =>
            /\ frame.slept >= 0
            /\ pc = "sample_fetch" =>
                   frame.fetched = frame.i /\ len(frame.rtn) = frame.i
            /\ pc = "sample_append" =>
                   frame.fetched = frame.i + 1 /\ len(frame.rtn) = frame.i
            /\ pc = "sample_sleep" =>
                   frame.fetched = frame.i + 1 /\ len(frame.rtn) = frame.i + 1
            /\ SampleReturned =>
                   /\ frame.fetched = frame.num_samples
                   /\ Len(SelectSeq(log, LAMBDA step : step = "fetch"))
                          = frame.num_samples
                   /\ \A k \in 1 .. Len(log) :
                          /\ log[k] = "fetch" =>
                                 k < Len(log) /\ log[k + 1] = "append"
                          /\ log[k] = "sleep" => log[k - 1] = "append"
                          /\ log[k] = "append" => log[k - 1] = "fetch")
    /\ [][/\ pc = "sample_for" /\ pc' = "sample_fetch" =>
               /\ frame'.start \in Clock
               /\ frame'.fetched = frame.fetched
               /\ frame'.rtn = frame.rtn
          /\ pc = "sample_fetch" /\ pc' = "sample_append" =>
               /\ frame'.fetched = frame.fetched + 1
               /\ frame'.rtn = frame.rtn
          /\ pc = "sample_append" /\ pc' = "sample_sleep" =>
               /\ frame'.fetched = frame.fetched
               /\ len(frame'.rtn) = len(frame.rtn) + 1
               /\ \E now \in Clock :
                      frame'.rtn.time[len(frame'.rtn)]
                          = now - frame.sample_start
          /\ pc = "sample_sleep" /\ pc' = "sample_for" =>
               /\ frame'.fetched = frame.fetched
               /\ frame'.rtn = frame.rtn
               /\ \E now \in Clock :
                      LET rest == frame.interval - (now - frame.start)
                      IN frame'.slept = IF rest > 0 THEN rest ELSE 0]_vars

\* a completed run of two iterations, the first of which used up its
\* interval and the second of which slept
C28_Witness ==
    /\ SampleReturned
    /\ frame.num_samples = 2
    /\ frame.fetched = 2
    /\ frame.slept > 0
    /\ log = << "fetch", "append", "fetch", "append", "sleep" >>

\* C29: each pose accessor makes no snapshot fetch when its caller supplies
\* the snapshot, and then cannot meet a backend fault, and makes exactly one
\* fetch when the snapshot is omitted; a supplied snapshot serves the
\* handle of any slot.
C29_FetchOnlyWhenOmitted ==
    handler \in AccessorNames =>
        /\ log[1].supplied => log[1].fetched = 0 /\ err # BackendFault
        /\ ~log[1].supplied => log[1].fetched = 1
        /\ AccessorUsedSnapshot /\ UsedEntry.bPoseIsValid
               /\ handler = "get_pose_matrix"
               => value.v = UsedEntry.mDeviceToAbsoluteTracking

C29_Witness ==
    /\ handler = "get_pose_matrix"
    /\ log[1].self.index = 1
    /\ log[1].supplied
    /\ log[1].fetched = 0
    /\ log[1].pose[0].mDeviceToAbsoluteTracking = Identity
    /\ value = Returned("matrix", Moved)

\* C30: at most one registered handle refers to any slot index, also after a
\* Connected event or an add_tracked_device call for a slot that is tracked
\* already and after a slot index is used again following a disconnect:
\* such a call on a registry with one handle per slot leaves one handle per
\* slot.
C30_OneHandlePerSlot ==
    (/\ handler \in { "add_tracked_device", "poll_vr_events" }
     /\ log # <<>>
     /\ IsAddCall(TheCall)
     /\ \A j, k \in 1 .. Len(TheCall.pre.devices) :
            (TheCall.pre.devices[j].handle.index
                 = TheCall.pre.devices[k].handle.index) => j = k)
    => \A j, k \in 1 .. Len(devices) :
           (devices[j].handle.index = devices[k].handle.index) => j = k

\* a call of remove_tracked_device: the method itself, or the removal that
\* poll_vr_events makes for a Deactivated event of a tracked slot
IsRemoveCall(c) ==
    \/ c.op = "remove_tracked_device"
    \/ /\ c.op = VREvent_TrackedDeviceDeactivated
       /\ c.args.trackedDeviceIndex \in DOMAIN c.pre.device_index_map

\* C31: remove_tracked_device is all-or-nothing: a call that raises any
\* error (the invalid-device-index exception, the KeyError of the name-table
\* look-up, the ValueError of the class-list removal) leaves the name table,
\* the per-class name lists and the slot-index map as they were before it.
C31_RemoveAllOrNothing ==
    (/\ handler \in { "remove_tracked_device", "poll_vr_events" }
     /\ log # <<>>
     /\ IsRemoveCall(TheCall)
     /\ err # NoError)
        => /\ TheCall.post = TheCall.pre
           /\ tables = TheCall.pre

C31_Witness ==
    /\ handler = "remove_tracked_device"
    /\ TheCall.args.slot \in DOMAIN TheCall.pre.device_index_map
    /\ err = KeyError
    /\ TheCall.pre.devices # <<>>
    /\ tables = TheCall.pre

\* C32: the sampling loop appends only poses the snapshot marks valid: an
\* iteration of sample() that has just added a buffer entry (it stands
\* before its sleep) fetched a pose with bPoseIsValid set, and the buffer
\* holds no more entries than valid poses were fetched.
C32_OnlyValidPosesAppended ==
    (handler = "sample" /\ pc = "sample_sleep")
        => /\ frame.pose.bPoseIsValid
           /\ len(frame.rtn)
                  <= Len(SelectSeq(frame.taken,
                                   LAMBDA a : a.pose.bPoseIsValid))

====
